---- MODULE Spec2Model ----
(***************************************************************************)
(* eval_loop of white_box/scripts/eval_loop.py as a state machine.         *)
(*                                                                         *)
(* A process calls eval_loop; the call resolves its rank and output        *)
(* directory, creates the directory, iterates the (optionally truncated)   *)
(* batch stream through a tqdm progress bar, and for every batch runs the  *)
(* model inside the residual-stream capture scope, computes the per-layer  *)
(* metrics, updates four accumulators and saves the batch's metrics; after *)
(* the loop it saves the four accumulators.  Any step may raise; nothing   *)
(* in eval_loop catches, so a raise ends the call.                         *)
(***************************************************************************)
EXTENDS Integers, Sequences, FiniteSets, TLC

\* ---------------------------------------------------------------- bounds
NumProcs == 2      \* processes that may call eval_loop
MaxCalls == 2      \* calls of eval_loop one process makes in a row
MaxBatches == 2    \* largest len(dl)
MaxLimit == 2      \* largest args.limit
ConcBatches == 1   \* largest len(dl) when the processes run concurrently
NumLayers == 2     \* len(lens)

Procs == 1..NumProcs

\* ------------------------------------------------------- Python values
\* An optional value: None, or a one-element tuple holding the value.
None == << >>
Some(x) == << x >>
Value(o) == o[1]

\* bool(x) of an optional int: None and 0 are falsy (`if args.limit:`).
TruthyInt(o) == o # None /\ Value(o) # 0

\* bool(x) of an optional pathlib.Path: a Path is always truthy.
TruthyPath(o) == o # None

Min(a, b) == IF a <= b THEN a ELSE b

\* A path is the sequence of its components; `path / name` appends one.
Div(path, name) == Append(path, name)

\* The path itself and all its ancestors (what mkdir(parents=True) makes).
Prefixes(path) == { SubSeq(path, 1, k) : k \in 1..Len(path) }

\* dict[key] = value
DictSet(d, key, value) ==
  [k \in DOMAIN d \cup {key} |-> IF k = key THEN value ELSE d[k]]

EmptyDict == [k \in {} |-> 0]

\* defaultdict(dict): d[m][name] = value, d[m] made on first access.
SetItem(d, m, name, value) ==
  DictSet(d, m, DictSet(IF m \in DOMAIN d THEN d[m] ELSE EmptyDict, name, value))

\* ------------------------------------------------------------ the state
VARIABLES
  args,          \* the Namespace: limit, output, lens (fixed for a behaviour)
  initialized,   \* dist.is_initialized(): the processes were launched as a group
  data_len,      \* len(dl): number of batches the DataLoader yields
  dirs,          \* the directories of the filesystem
  files,         \* the regular files of the filesystem: path -> content
  quota,         \* how many times each process calls eval_loop
  call,          \* calls of eval_loop each process has started
  pc,            \* each process's position in eval_loop
  failedAt,      \* the step whose exception ended the call, or "none"
  local_rank,
  output_dir,
  total,         \* the progress bar's total
  dl,            \* batches taken from the batch stream so far
  batch,         \* the batch being processed (its index in the stream), or -1
  pbar,          \* tqdm: it = the iterator's private count, n = pbar.n
  hooks,         \* forward hooks of record_residual_stream are on the model
  stats,         \* update calls each accumulator has received
  batch_output,
  saved,         \* accumulators persisted so far by the current call
  written        \* paths the current call has written: path -> times written

vars == << args, initialized, data_len, dirs, files, quota, call, pc,
           failedAt, local_rank, output_dir, total, dl, batch, pbar, hooks, stats,
           batch_output, saved, written >>

env == << args, initialized, data_len, quota >>

\* ------------------------------------------------------------ eval_loop
\* dist.get_rank() of process p in an initialized group: ranks are distinct.
GroupRank(p) == p - 1

\* local_rank = dist.get_rank() if dist.is_initialized() else 0
LocalRank(p, is_initialized) == IF is_initialized THEN GroupRank(p) ELSE 0

\* The four accumulators, in the order the loop updates them.
StatNames == << "first_token_stats", "delta_stats", "logit_stats", "stream_stats" >>

\* The order the accumulators are saved in after the loop.
SummaryNames == << "first_token_stats", "delta_stats", "stream_stats", "logit_stats" >>

\* ResidualStats() / LogitStats(): no update received yet.
NewStats == [a \in {StatNames[i] : i \in 1..Len(StatNames)} |-> 0]

\* Variant: the stream cut one batch late.
HasNextOneMore(a, n, taken) ==
  IF TruthyInt(a.limit)
    THEN taken <= Value(a.limit) /\ taken < n
    ELSE taken < n

\* if args.limit: dl = islice(dl, args.limit): whether the stream has a
\* next batch after `taken` were taken.
HasNext(a, n, taken) ==
  IF TruthyInt(a.limit)
    THEN taken < Value(a.limit) /\ taken < n
    ELSE taken < n

\* total = args.limit if args.limit else len(dl)
Total(a, n) == IF TruthyInt(a.limit) THEN Value(a.limit) ELSE n

\* Variant: (args.output or args.lens) / "eval".
RootDirEvalUnderBase(a) ==
  Div(IF TruthyPath(a.output) THEN Value(a.output) ELSE a.lens, "eval")

\* root_dir = args.output or args.lens / "eval"    (`/` binds tighter than `or`)
RootDir(a) ==
  IF TruthyPath(a.output) THEN Value(a.output) ELSE Div(a.lens, "eval")

\* Variant: the rank left out of the path.
OutputDirNoRank(a, rank) == RootDir(a)

\* output_dir = root_dir / f"rank_{local_rank}"
OutputDir(a, rank) == Div(RootDir(a), "rank_" \o ToString(rank))

\* Variant: mkdir without exist_ok.
MkdirRaisesIfExists(path, ds, fs) ==
  \/ path \in ds
  \/ \E q \in Prefixes(path) : q \in DOMAIN fs

\* output_dir.mkdir(exist_ok=True, parents=True) raises only when the path
\* or one of its ancestors exists and is not a directory.
MkdirRaises(path, ds, fs) == \E q \in Prefixes(path) : q \in DOMAIN fs

\* f"batch_{pbar.n}.pt"
BatchFile(n) == "batch_" \o ToString(n) \o ".pt"

SummaryFile(name) == name \o ".pt"

\* th.save(obj, path)
WriteFile(fs, path, content) ==
  [q \in DOMAIN fs \cup {path} |-> IF q = path THEN content ELSE fs[q]]

Count(w, path) == IF path \in DOMAIN w THEN w[path] ELSE 0

NoteWrite(w, path) == DictSet(w, path, Count(w, path) + 1)

BatchContent(b, bo) ==
  [kind |-> "batch", batch |-> b, out |-> bo, updates |-> 0]

StatsContent(k) ==
  [kind |-> "stats", batch |-> -1, out |-> EmptyDict, updates |-> k]

\* A file that is there before any call and is not eval_loop's.
Foreign ==
  [kind |-> "foreign", batch |-> -1, out |-> EmptyDict, updates |-> 0]

\* ------------------------------------------- the capture and the metrics
\* The keys of batch_output.
BaselineMetrics == {"baseline_ce", "baseline_entropy"}
LensMetrics == {"lens_ce", "lens_entropy", "lens_kl"}

LayerName(i) == "layer_" \o ToString(i)

\* len(lens)
LensLen == NumLayers

\* stream.items() after the forward pass: one (name, h) pair per captured
\* layer, in layer order, as many as the lens has probes.
StreamItems == [k \in 1..LensLen |-> [name |-> LayerName(k - 1), h |-> k - 1]]

\* Variant: the probe index off by one.
ZipFromOne(n, items) ==
  [k \in 1..Min(n, Len(items)) |-> << k, items[k] >>]

\* zip(range(n), items)
Zip(n, items) ==
  [k \in 1..Min(n, Len(items)) |-> << k - 1, items[k] >>]

\* A metric tensor, named by what it was computed from: the function, the
\* decoder ("lens" = lens(h, idx=probe), "to_logits" = lens.to_logits(h),
\* "model" = output.logits), and the captured layer h.
Metric(fn, decoder, probe, h) ==
  [fn |-> fn, decoder |-> decoder, probe |-> probe, h |-> h]

\* One pass of the body of `for i, (name, h) in zip(...)`.
LayerStep(bo, i, item) ==
  LET name == item.name
      h == item.h
      b1 == SetItem(bo, "baseline_ce", name, Metric("ce", "to_logits", -1, h))
      b2 == SetItem(b1, "baseline_entropy", name, Metric("entropy", "to_logits", -1, h))
      b3 == SetItem(b2, "lens_ce", name, Metric("ce", "lens", i, h))
      b4 == SetItem(b3, "lens_entropy", name, Metric("entropy", "lens", i, h))
  IN  SetItem(b4, "lens_kl", name, Metric("kl", "lens", i, h))

RECURSIVE LayerLoop(_, _, _)
LayerLoop(bo, pairs, k) ==
  IF k > Len(pairs)
    THEN bo
    ELSE LayerLoop(LayerStep(bo, pairs[k][1], pairs[k][2]), pairs, k + 1)

\* batch_output = defaultdict(dict), then the loop over the layers.
LayerMetrics == LayerLoop(EmptyDict, Zip(LensLen, StreamItems), 1)

\* batch_output["baseline_ce"]["final"] = ..., ["baseline_entropy"]["final"] = ...
FinalMetrics(bo) ==
  SetItem(SetItem(bo, "baseline_ce", "final", Metric("ce", "model", -1, -1)),
          "baseline_entropy", "final", Metric("entropy", "model", -1, -1))

\* Variant: delta_stats not updated.
UpdateSkipsDelta(st) ==
  [a \in DOMAIN st |-> IF a = "delta_stats" THEN st[a] ELSE st[a] + 1]

\* The four update calls of one batch.
UpdateAll(st) == [a \in DOMAIN st |-> st[a] + 1]

\* record_residual_stream(model).__enter__: the forward hooks are registered.
HooksAfterEnter == TRUE

\* record_residual_stream(model).__exit__: the forward hooks are removed.
HooksAfterExit == FALSE

\* Variant: enter, call, exit in a row, with no `with`.
ExitRunsOnReturnOnly(raised) == ~raised

\* `with ... as stream:` calls __exit__ when the block is left, whether it
\* returned (raised = FALSE) or an exception passed through (raised = TRUE).
ExitRuns(raised) == TRUE

\* The hooks after the block `output = model(**batch)` is left.
ScopeExit(on, raised) == IF ExitRuns(raised) THEN HooksAfterExit ELSE on

\* Variant: the exception caught and the accumulators saved all the same.
OnRaiseSalvage(step) == "summary"

\* An exception in eval_loop: nothing catches it.
OnRaise(step) == "failed"

\* The steps of one batch that may raise.
BatchSteps == {"to_device", "forward", "metrics", "update", "save"}

\* tqdm.__iter__ resumed after a yield: the private count goes up by one;
\* pbar.n follows it only when a display refresh is due (mininterval has
\* passed since the last one).
TqdmResume(pb, started, refresh) ==
  IF ~started
    THEN pb
    ELSE [it |-> pb.it + 1, n |-> IF refresh THEN pb.it + 1 ELSE pb.n]

\* tqdm.__iter__ at the end of the iterable: finally: self.n = n.
TqdmFinish(pb, started) ==
  LET n == IF started THEN pb.it + 1 ELSE pb.it IN [it |-> n, n |-> n]

\* ----------------------------------------------------------------- Init
\* The filesystem before the first call: some leading part of root_dir
\* exists, or a regular file sits where root_dir should be.
InitialFs(root) ==
  { [dirs |-> { SubSeq(root, 1, j) : j \in 1..k }, files |-> EmptyDict] :
      k \in 0..Len(root) }
  \cup
  { [dirs |-> { SubSeq(root, 1, j) : j \in 1..(Len(root) - 1) },
     files |-> [q \in {root} |-> Foreign]] }

InitEnv(limits, lengths) ==
  /\ args \in [limit : limits,
               output : {None, Some(<< "out" >>)},
               lens : {<< "lens" >>}]
  /\ initialized \in BOOLEAN
  /\ data_len \in lengths
  /\ \E fs \in InitialFs(RootDir(args)) : dirs = fs.dirs /\ files = fs.files

InitProcs ==
  /\ call = [p \in Procs |-> 0]
  /\ pc = [p \in Procs |-> "idle"]
  /\ failedAt = [p \in Procs |-> "none"]
  /\ local_rank = [p \in Procs |-> 0]
  /\ output_dir = [p \in Procs |-> << >>]
  /\ total = [p \in Procs |-> 0]
  /\ dl = [p \in Procs |-> 0]
  /\ batch = [p \in Procs |-> -1]
  /\ pbar = [p \in Procs |-> [it |-> 0, n |-> 0]]
  /\ hooks = [p \in Procs |-> FALSE]
  /\ stats = [p \in Procs |-> NewStats]
  /\ batch_output = [p \in Procs |-> EmptyDict]
  /\ saved = [p \in Procs |-> 0]
  /\ written = [p \in Procs |-> EmptyDict]

\* One process calls eval_loop, up to MaxCalls times, one call after another.
Init ==
  /\ InitEnv({None} \cup { Some(l) : l \in 0..MaxLimit }, 0..MaxBatches)
  /\ quota = [p \in Procs |-> IF p = 1 THEN MaxCalls ELSE 0]
  /\ InitProcs

\* Every process calls eval_loop once, concurrently with the others.
InitConc ==
  /\ InitEnv({None}, 0..ConcBatches)
  /\ quota = [p \in Procs |-> 1]
  /\ InitProcs

\* -------------------------------------------------------------- actions
\* Lines 24-41: the call begins: rank, loader, fresh accumulators, total.
Start(p) ==
  /\ pc[p] \in {"idle", "done", "failed"}
  /\ call[p] < quota[p]
  /\ local_rank' = [local_rank EXCEPT ![p] = LocalRank(p, initialized)]
  /\ call' = [call EXCEPT ![p] = @ + 1]
  /\ pc' = [pc EXCEPT ![p] = "mkdir"]
  /\ failedAt' = [failedAt EXCEPT ![p] = "none"]
  /\ output_dir' = [output_dir EXCEPT ![p] = << >>]
  /\ stats' = [stats EXCEPT ![p] = NewStats]
  /\ total' = [total EXCEPT ![p] = Total(args, data_len)]
  /\ dl' = [dl EXCEPT ![p] = 0]
  /\ batch' = [batch EXCEPT ![p] = -1]
  /\ pbar' = [pbar EXCEPT ![p] = [it |-> 0, n |-> 0]]
  /\ batch_output' = [batch_output EXCEPT ![p] = EmptyDict]
  /\ saved' = [saved EXCEPT ![p] = 0]
  /\ written' = [written EXCEPT ![p] = EmptyDict]
  /\ UNCHANGED << env, dirs, files, hooks >>

\* An exception leaves eval_loop: its frame, and the locals in it, are gone.
Unwind(p, step) ==
  /\ pc' = [pc EXCEPT ![p] = OnRaise(step)]
  /\ failedAt' = [failedAt EXCEPT ![p] = step]
  /\ total' = [total EXCEPT ![p] = 0]
  /\ dl' = [dl EXCEPT ![p] = 0]
  /\ batch' = [batch EXCEPT ![p] = -1]
  /\ pbar' = [pbar EXCEPT ![p] = [it |-> 0, n |-> 0]]
  /\ stats' = [stats EXCEPT ![p] = NewStats]
  /\ batch_output' = [batch_output EXCEPT ![p] = EmptyDict]
  /\ UNCHANGED << env, dirs, files, call, local_rank, saved, written >>

\* Lines 43-47: the output directory resolved and created, the bar made.
Mkdir(p) ==
  /\ pc[p] = "mkdir"
  /\ LET d == OutputDir(args, local_rank[p]) IN
       /\ ~MkdirRaises(d, dirs, files)
       /\ output_dir' = [output_dir EXCEPT ![p] = d]
       /\ dirs' = dirs \cup Prefixes(d)
  /\ pc' = [pc EXCEPT ![p] = "iter"]
  /\ UNCHANGED << env, files, call, failedAt, local_rank, total, dl,
                  batch, pbar, hooks, stats, batch_output, saved, written >>

\* Line 45 raises: the path cannot be made a directory.
MkdirFail(p) ==
  /\ pc[p] = "mkdir"
  /\ LET d == OutputDir(args, local_rank[p]) IN
       /\ MkdirRaises(d, dirs, files)
       /\ output_dir' = [output_dir EXCEPT ![p] = d]
  /\ Unwind(p, "mkdir")
  /\ UNCHANGED hooks

\* Line 48: the bar yields the next batch of the stream.
IterNext(p) ==
  /\ pc[p] = "iter"
  /\ HasNext(args, data_len, dl[p])
  /\ \E refresh \in BOOLEAN :
       pbar' = [pbar EXCEPT ![p] = TqdmResume(@, dl[p] > 0, refresh)]
  /\ batch' = [batch EXCEPT ![p] = dl[p]]
  /\ dl' = [dl EXCEPT ![p] = @ + 1]
  /\ pc' = [pc EXCEPT ![p] = "to_device"]
  /\ UNCHANGED << env, dirs, files, call, failedAt, local_rank,
                  output_dir, total, hooks, stats, batch_output, saved, written >>

\* Lines 48, 101: the stream is exhausted, the loop ends, the bar is closed.
IterStop(p) ==
  /\ pc[p] = "iter"
  /\ ~HasNext(args, data_len, dl[p])
  /\ pbar' = [pbar EXCEPT ![p] = TqdmFinish(@, dl[p] > 0)]
  /\ pc' = [pc EXCEPT ![p] = "summary"]
  /\ UNCHANGED << env, dirs, files, call, failedAt, local_rank,
                  output_dir, total, dl, batch, hooks, stats, batch_output,
                  saved, written >>

\* Lines 49-50: the batch sent to the device, the capture scope entered.
EnterScope(p) ==
  /\ pc[p] = "to_device"
  /\ hooks' = [hooks EXCEPT ![p] = HooksAfterEnter]
  /\ pc' = [pc EXCEPT ![p] = "forward"]
  /\ UNCHANGED << env, dirs, files, call, failedAt, local_rank,
                  output_dir, total, dl, batch, pbar, stats, batch_output,
                  saved, written >>

\* Line 51: model(**batch) returns and the scope is left.
Forward(p) ==
  /\ pc[p] = "forward"
  /\ hooks' = [hooks EXCEPT ![p] = ScopeExit(@, FALSE)]
  /\ pc' = [pc EXCEPT ![p] = "metrics"]
  /\ UNCHANGED << env, dirs, files, call, failedAt, local_rank,
                  output_dir, total, dl, batch, pbar, stats, batch_output,
                  saved, written >>

\* Lines 53-81: the per-layer metrics.
ComputeMetrics(p) ==
  /\ pc[p] = "metrics"
  /\ batch_output' = [batch_output EXCEPT ![p] = LayerMetrics]
  /\ pc' = [pc EXCEPT ![p] = "update"]
  /\ UNCHANGED << env, dirs, files, call, failedAt, local_rank,
                  output_dir, total, dl, batch, pbar, hooks, stats, saved,
                  written >>

\* Lines 83-89: the four accumulators updated.
UpdateStats(p) ==
  /\ pc[p] = "update"
  /\ stats' = [stats EXCEPT ![p] = UpdateAll(@)]
  /\ pc' = [pc EXCEPT ![p] = "save"]
  /\ UNCHANGED << env, dirs, files, call, failedAt, local_rank,
                  output_dir, total, dl, batch, pbar, hooks, batch_output,
                  saved, written >>

\* Lines 91-99: the two "final" metrics added and the batch saved.
SaveBatch(p) ==
  /\ pc[p] = "save"
  /\ LET bo == FinalMetrics(batch_output[p])
         path == Div(output_dir[p], BatchFile(pbar[p].n))
     IN  /\ batch_output' = [batch_output EXCEPT ![p] = bo]
         /\ files' = WriteFile(files, path, BatchContent(batch[p], bo))
         /\ written' = [written EXCEPT ![p] = NoteWrite(@, path)]
  /\ pc' = [pc EXCEPT ![p] = "iter"]
  /\ UNCHANGED << env, dirs, call, failedAt, local_rank, output_dir,
                  total, dl, batch, pbar, hooks, stats, saved >>

\* A step of the batch, or a save after the loop, raises.  A save that
\* raises is taken to raise before it writes.
Raise(p) ==
  /\ pc[p] \in BatchSteps \cup {"summary"}
  /\ Unwind(p, pc[p])
  /\ hooks' = [hooks EXCEPT ![p] = IF pc[p] = "forward" THEN ScopeExit(@, TRUE) ELSE @]
  /\ UNCHANGED output_dir

\* Lines 102-105: the next accumulator saved; after the fourth the call returns.
SaveSummary(p) ==
  /\ pc[p] = "summary"
  /\ LET name == SummaryNames[saved[p] + 1]
         path == Div(output_dir[p], SummaryFile(name))
     IN  /\ files' = WriteFile(files, path, StatsContent(stats[p][name]))
         /\ written' = [written EXCEPT ![p] = NoteWrite(@, path)]
  /\ saved' = [saved EXCEPT ![p] = @ + 1]
  /\ pc' = [pc EXCEPT ![p] = IF saved[p] + 1 = Len(SummaryNames) THEN "done" ELSE "summary"]
  /\ UNCHANGED << env, dirs, call, failedAt, local_rank, output_dir,
                  total, dl, batch, pbar, hooks, stats, batch_output >>

Step(p) ==
  \/ Mkdir(p)
  \/ MkdirFail(p)
  \/ IterNext(p)
  \/ IterStop(p)
  \/ EnterScope(p)
  \/ Forward(p)
  \/ ComputeMetrics(p)
  \/ UpdateStats(p)
  \/ SaveBatch(p)
  \/ Raise(p)
  \/ SaveSummary(p)

Next == \E p \in Procs : Start(p) \/ Step(p)

Spec == Init /\ [][Next]_vars

SpecConc == InitConc /\ [][Next]_vars

\* A call that has begun keeps running until it returns or raises.
FairSpec == Spec /\ \A p \in Procs : WF_vars(Step(p))

\* ------------------------------------------------------ shared notions
\* The call of process p has resolved its output directory.
Resolved(p) == pc[p] \notin {"idle", "mkdir"}

\* The directory a path lies directly in.
Parent(x) == SubSeq(x, 1, Len(x) - 1)

SummaryPaths(p) ==
  { Div(output_dir[p], SummaryFile(SummaryNames[i])) : i \in 1..Len(SummaryNames) }

\* The batch files the current call of p has written.
BatchPathsWritten(p) == DOMAIN written[p] \ SummaryPaths(p)

BatchPath(p, k) == Div(output_dir[p], BatchFile(k))

\* How many times the current call of p wrote batch_0.pt .. batch_k.pt.
RECURSIVE BatchWrites(_, _)
BatchWrites(p, k) ==
  IF k < 0 THEN 0 ELSE Count(written[p], BatchPath(p, k)) + BatchWrites(p, k - 1)

\* ------------------------------------------------------------------- C1
\* C1: when a call returns after processing K batches, the batch files it
\* wrote are exactly batch_0.pt .. batch_(K-1).pt, each written once, and
\* batch_k.pt holds the metrics of the k-th batch.
C1_OneFilePerBatch ==
  \A p \in Procs :
    pc[p] = "done" =>
      /\ BatchPathsWritten(p) = { BatchPath(p, k) : k \in 0..(dl[p] - 1) }
      /\ \A k \in 0..(dl[p] - 1) :
           /\ Count(written[p], BatchPath(p, k)) = 1
           /\ BatchPath(p, k) \in DOMAIN files
           /\ files[BatchPath(p, k)].batch = k

\* ------------------------------------------------------------------- C2
\* C2: with args.limit = 0 a call that returns has processed no batch: it
\* wrote no batch file, updated no accumulator, created the directory and
\* wrote the four summary files.
C2_LimitZeroProcessesNothing ==
  \A p \in Procs :
    (args.limit = Some(0) /\ pc[p] = "done") =>
      /\ dl[p] = 0
      /\ BatchPathsWritten(p) = {}
      /\ stats[p] = NewStats
      /\ output_dir[p] \in dirs
      /\ SummaryPaths(p) \subseteq DOMAIN written[p]

\* ------------------------------------------------------------------- C3
RankComponent(p) == "rank_" \o ToString(local_rank[p])

\* The base the spec names: args.output if it is set, args.lens otherwise.
Base == IF args.output # None THEN Value(args.output) ELSE args.lens

\* C3 as stated: the output directory is <base>/eval/rank_<r> whether or not
\* args.output is set, and every file of the call lies directly in it.
C3_EvalUnderBase ==
  \A p \in Procs :
    Resolved(p) =>
      /\ output_dir[p] = Base \o << "eval", RankComponent(p) >>
      /\ \A x \in DOMAIN written[p] : Parent(x) = output_dir[p]

\* C3 amended: the output directory is args.output/rank_<r> when args.output
\* is set (no "eval" component) and args.lens/eval/rank_<r> otherwise, and
\* every batch and summary file of the call lies directly in it.
C3_OutputDir ==
  \A p \in Procs :
    Resolved(p) =>
      /\ args.output # None =>
           output_dir[p] = Value(args.output) \o << RankComponent(p) >>
      /\ args.output = None =>
           output_dir[p] = args.lens \o << "eval", RankComponent(p) >>
      /\ \A x \in DOMAIN written[p] : Parent(x) = output_dir[p]

C3_Witness ==
  \E p \in Procs :
    /\ pc[p] = "done"
    /\ args.output # None
    /\ BatchPathsWritten(p) # {}
    /\ SummaryPaths(p) \subseteq DOMAIN written[p]

\* ------------------------------------------------------------------- C4
\* The batches a call is to process: min(L, N) under a limit L > 0, all N
\* when no limit is configured.
Expected == IF args.limit = None THEN data_len ELSE Min(Value(args.limit), data_len)

InBody(p) == pc[p] \in {"to_device", "forward", "metrics", "update", "save"}

C4_Counts ==
  \A p \in Procs :
    (args.limit # Some(0) /\ pc[p] \in {"iter", "summary", "done"} \cup BatchSteps) =>
      /\ total[p] = IF args.limit = None THEN data_len ELSE Value(args.limit)
      /\ dl[p] <= Expected
      /\ InBody(p) => batch[p] = dl[p] - 1
      /\ pc[p] \in {"summary", "done"} => dl[p] = Expected

\* C4: with a limit L > 0 a call processes the first min(L, N) batches of the
\* stream in order and the progress total is L; with no limit it processes
\* all N and the total is N; and the loop ends after that many iterations
\* unless a step raises.
C4_LimitAndTermination ==
  /\ []C4_Counts
  /\ \A p \in Procs :
       (args.limit # Some(0) /\ pc[p] = "iter" /\ dl[p] = 0)
         ~> (pc[p] = "failed" \/ (pc[p] = "summary" /\ dl[p] = Expected))

C4_Witness ==
  \E p \in Procs :
    /\ pc[p] = "done"
    /\ TruthyInt(args.limit)
    /\ Value(args.limit) < data_len
    /\ dl[p] = Value(args.limit)

\* ------------------------------------------------------------------- C5
\* C5: the capture's hooks are on the model only while the call is inside
\* the scope of the forward pass; outside it (metrics, updates, saves,
\* between batches, after the call returned or raised) none is left.
C5_HooksOnlyInScope == \A p \in Procs : hooks[p] => pc[p] = "forward"

C5_Witness ==
  \E p \in Procs : pc[p] = "failed" /\ failedAt[p] = "forward" /\ ~hooks[p]

\* ------------------------------------------------------------------- C6
\* A call that ended by an exception in a step of a batch is over: no summary
\* file was or is written by it.
C6_NoSalvage ==
  \A p \in Procs :
    failedAt[p] \in BatchSteps =>
      /\ pc[p] = "failed"
      /\ saved[p] = 0
      /\ SummaryPaths(p) \cap DOMAIN written[p] = {}

\* The step in which a batch step raises, and every later step while that
\* call stays the process's last, writes nothing: the files stay as they are.
C6_FilesKept ==
  \A p \in Procs :
    (failedAt'[p] \in BatchSteps /\ call'[p] = call[p]) =>
      /\ files' = files
      /\ written'[p] = written[p]
      /\ dl'[p] = 0

Updated(p) == IF pc[p] \in {"to_device", "forward", "metrics", "update"}
                THEN dl[p] - 1 ELSE dl[p]

\* C7: every accumulator has received exactly one update per processed batch;
\* an accumulator is saved at most once, only after the stream is exhausted
\* and every processed batch has been saved; a call that returns has saved
\* each accumulator exactly once, holding one update per batch.
C7_UpdatesAndSummaries ==
  \A p \in Procs :
    /\ pc[p] \in {"iter", "summary", "done"} \cup BatchSteps =>
         \A i \in 1..Len(StatNames) : stats[p][StatNames[i]] = Updated(p)
    /\ \A x \in SummaryPaths(p) : Count(written[p], x) <= 1
    /\ (pc[p] \in {"iter"} \cup BatchSteps) =>
         SummaryPaths(p) \cap DOMAIN written[p] = {}
    /\ pc[p] \in {"summary", "done"} =>
         /\ ~HasNext(args, data_len, dl[p])
         /\ BatchWrites(p, MaxBatches) = dl[p]
    /\ pc[p] = "done" =>
         \A x \in SummaryPaths(p) :
           /\ Count(written[p], x) = 1
           /\ files[x].kind = "stats"
           /\ files[x].updates = dl[p]

C7_Witness ==
  \E p \in Procs : pc[p] = "done" /\ dl[p] = MaxBatches /\ dl[p] >= 2

\* ------------------------------------------------------------------- C8
\* C8 as stated: no path is written by two different processes.
C8_NoSharedPath ==
  \A p, q \in Procs :
    p # q => DOMAIN written[p] \cap DOMAIN written[q] = {}

\* C8 amended: a process writes only in its own rank_<rank> directory; its
\* rank is its group rank in an initialized group and 0 otherwise; and two
\* processes of different rank write no path in common.
C8_DistinctRanksDisjoint ==
  /\ \A p \in Procs :
       Resolved(p) =>
         /\ local_rank[p] = IF initialized THEN GroupRank(p) ELSE 0
         /\ output_dir[p] = RootDir(args) \o << RankComponent(p) >>
         /\ \A x \in DOMAIN written[p] : Parent(x) = output_dir[p]
  /\ \A p, q \in Procs :
       (p # q /\ Resolved(p) /\ Resolved(q) /\ local_rank[p] # local_rank[q]) =>
         DOMAIN written[p] \cap DOMAIN written[q] = {}

C8_Witness ==
  /\ initialized
  /\ \A p \in Procs :
       /\ pc[p] = "done"
       /\ BatchPathsWritten(p) # {}
       /\ SummaryPaths(p) \subseteq DOMAIN written[p]

\* ------------------------------------------------------------------- C9
\* C9: creating the output directory never fails because the directory, or
\* a parent of it, is already there (only a regular file in the way makes it
\* fail); once created the directory and all its parents exist, on a first
\* call with missing parents as on a later call that finds them.
C9_MkdirIdempotent ==
  \A p \in Procs :
    /\ failedAt[p] = "mkdir" =>
         /\ output_dir[p] \notin dirs
         /\ \E q \in Prefixes(output_dir[p]) : q \in DOMAIN files
    /\ (Resolved(p) /\ failedAt[p] # "mkdir") =>
         Prefixes(output_dir[p]) \subseteq dirs

C9_Witness ==
  \E p \in Procs :
    /\ call[p] = 2
    /\ pc[p] = "iter"
    /\ \E x \in DOMAIN files : Parent(x) = output_dir[p]

\* ------------------------------------------------------------------ C10
LayerNames == { LayerName(i) : i \in 0..(LensLen - 1) }

\* C10: a saved batch_output has exactly the five metric keys, each with one
\* entry per captured layer; the i-th captured layer is decoded by probe i;
\* baseline_ce and baseline_entropy, and only they, also have "final",
\* computed from the model's own output.
C10_BatchOutputShape ==
  \A x \in DOMAIN files :
    files[x].kind = "batch" =>
      LET o == files[x].out IN
        /\ DOMAIN o = BaselineMetrics \cup LensMetrics
        /\ \A m \in BaselineMetrics : DOMAIN o[m] = LayerNames \cup {"final"}
        /\ \A m \in LensMetrics : DOMAIN o[m] = LayerNames
        /\ \A m \in BaselineMetrics : o[m]["final"].decoder = "model"
        /\ \A i \in 0..(LensLen - 1) :
             /\ \A m \in LensMetrics :
                  o[m][LayerName(i)] \in
                    { Metric(fn, "lens", i, i) : fn \in {"ce", "entropy", "kl"} }
             /\ \A m \in BaselineMetrics :
                  o[m][LayerName(i)] \in
                    { Metric(fn, "to_logits", -1, i) : fn \in {"ce", "entropy"} }

C10_Witness ==
  \E x \in DOMAIN files : files[x].kind = "batch" /\ files[x].batch = 1

====
